---------------------------- MODULE Spec2Model ----------------------------
(***************************************************************************)
(* Model of the IMEI/UPC scanner (src/app.js, class IMEIUPCScanner): the   *)
(* barcode classifier with its checksum validators and vendor lookup, the  *)
(* duplicate guard, and the scan log with the handlers that change it.     *)
(*                                                                         *)
(* The state is the part of the scanner object the engine reads or writes: *)
(* the user, the session id, the log, the duplicate and error counters,    *)
(* the duplicateHandling setting, the saved copy of the log, isScanning    *)
(* and scanInterval, with the live timers and pending awaits.  The DOM,    *)
(* the camera, the audio and the performance statistics (totalScans,       *)
(* scanTimes, scanStartTime), which the engine never reads, are left out;  *)
(* a decoded result keeps its text and timestamp, not its format and       *)
(* points.                                                                 *)
(*                                                                         *)
(* The specifications: SpecClassify applies analyzeBarcodeType once to any *)
(* text of a generated family; Spec runs the handlers that touch the log;  *)
(* SpecCounters adds the scan timer's error branch and starts with the     *)
(* saved user; SpecBlock keeps the policy at block and hands lists of      *)
(* results, padded texts among them, to processDetectedBarcodes; SpecLoad  *)
(* starts with any saved item and loads it; SpecSync detects one text and  *)
(* builds the sync payload; SpecScan runs the scanning handlers with their *)
(* awaits (camera start, decoder) as separate steps, detections arriving   *)
(* only through performScan; SpecUsers has two users taking turns.         *)
(*                                                                         *)
(* A JavaScript string is modelled as a sequence of one-character strings, *)
(* so that trimming, regular-expression tests and indexing are computed    *)
(* and not assumed.  Source positions are 0-based, sequences are 1-based:  *)
(* charAt(s, i) is the source's s[i].                                      *)
(***************************************************************************)
EXTENDS Integers, Sequences, FiniteSets, TLC

VARIABLES
    currentUser,     \* this.currentUser: Null or a user name
    sessionId,       \* this.sessionId: NoSession or <<user, time>>
    scanData,        \* this.scanData: the scan log, a sequence of records
    duplicateCount,  \* this.duplicateCount
    errorCount,      \* this.errorCount
    settings,        \* this.settings (the field the engine reads)
    storage,         \* the localStorage item 'imei_scanner_data'
    now,             \* the clock behind Date.now()
    input,           \* the argument handed to the classifier (pure-function runs)
    ret,             \* the last call observed: its name, argument and result
    mon,             \* observer of two successive detections from a fresh log
    isScanning,      \* this.isScanning
    scanInterval,    \* this.scanInterval: NoTimer or the id setInterval gave
    timers,          \* the ids of the interval timers that are live
    starting,        \* startScanning calls waiting for startCameraStream
    restarts,        \* timeouts of updateScanMode that have not fired yet
    pending,         \* performScan calls waiting for scanImageData
    hidden,          \* document.hidden
    stopped,         \* observer: stopScanning ran, startScanning not called since
    userPaused       \* observer: toggleDetection paused, nothing released it yet

\* the scanning state and its observers
scanVars == <<isScanning, scanInterval, timers, starting, restarts, pending,
              hidden, stopped, userPaused>>

vars == <<currentUser, sessionId, scanData, duplicateCount, errorCount,
          settings, storage, now, input, ret, mon, scanVars>>

-----------------------------------------------------------------------------
(* Bounds of the model *)

\* longest text body generated for the classifier
MaxLen == 16
\* most whitespace characters put on each side of a body
MaxPad == 1
\* most records in the scan log
MaxLog == 2
\* cap of duplicateCount
MaxDup == 1
\* last value of the clock
MaxNow == 1
\* cap of errorCount
MaxErr == 1
\* longest list of decoded results handed to processDetectedBarcodes
MaxResults == 2
\* most interval timers live at one time
MaxTimers == 2
\* most startScanning calls waiting for the camera at one time
MaxStarting == 2
\* most restart timeouts of updateScanMode waiting to fire
MaxRestarts == 1
\* most performScan calls waiting for the decoder at one time
MaxPending == 1

-----------------------------------------------------------------------------
(* Characters and strings *)

Digits == {"0", "1", "2", "3", "4", "5", "6", "7", "8", "9"}
HexUpper == {"A", "B", "C", "D", "E", "F"}
HexLower == {"a", "b", "c", "d", "e", "f"}
Whitespace == {" ", "\t"}
OtherChars == {"G", "g", "-"}
Chars == Digits \cup HexUpper \cup HexLower \cup Whitespace \cup OtherChars

\* s[i] of the source (0-based)
charAt(s, i) == s[i + 1]

\* s.substring(a, b) of the source: positions a..b-1, clamped to the string
substring(s, a, b) ==
    LET hi == IF b > Len(s) THEN Len(s) ELSE b
    IN  SubSeq(s, a + 1, hi)

\* parseInt of a one-character string holding a decimal digit
parseInt(c) ==
    CASE c = "0" -> 0 [] c = "1" -> 1 [] c = "2" -> 2 [] c = "3" -> 3
      [] c = "4" -> 4 [] c = "5" -> 5 [] c = "6" -> 6 [] c = "7" -> 7
      [] c = "8" -> 8 [] c = "9" -> 9

RECURSIVE trimStart(_)
trimStart(s) ==
    IF s # <<>> /\ Head(s) \in Whitespace THEN trimStart(Tail(s)) ELSE s

RECURSIVE trimEnd(_)
trimEnd(s) ==
    IF s # <<>> /\ s[Len(s)] \in Whitespace
    THEN trimEnd(SubSeq(s, 1, Len(s) - 1))
    ELSE s

\* String.prototype.trim
trim(s) == trimEnd(trimStart(s))

\* /^\d{n}$/.test(s)
matchDigits(s, n) == Len(s) = n /\ \A i \in 1..Len(s) : s[i] \in Digits

\* /^\d{15}$/
matchIMEI(s) == matchDigits(s, 15)

\* faulty variant: the i flag forgotten, /^[0-9A-F]{14}$/
matchMEID_upperOnly(s) ==
    Len(s) = 14 /\ \A i \in 1..Len(s) : s[i] \in Digits \cup HexUpper

\* faulty variant: any letter taken for a hexadecimal digit, /^[0-9A-Z]{14}$/i
matchMEID_anyLetter(s) ==
    Len(s) = 14 /\ \A i \in 1..Len(s) :
                     s[i] \in Digits \cup HexUpper \cup HexLower \cup {"G", "g"}

\* /^[0-9A-F]{14}$/i
matchMEID(s) ==
    Len(s) = 14 /\ \A i \in 1..Len(s) : s[i] \in Digits \cup HexUpper \cup HexLower

\* /^\d{12}$/
matchUPCA(s) == matchDigits(s, 12)

\* /^\d{8}$/
matchUPCE(s) == matchDigits(s, 8)

\* /^\d{13}$/
matchEAN13(s) == matchDigits(s, 13)

-----------------------------------------------------------------------------
(* VendorLookup and ChecksumValidators *)

\* the keys of the vendors object literal in getIMEIVendor
vendorKeys == {<<"0", "1">>, <<"3", "5">>, <<"8", "6">>, <<"9", "9">>}

\* the vendors object literal in getIMEIVendor
vendors(key) ==
    CASE key = <<"0", "1">> -> "Apple"
      [] key = <<"3", "5">> -> "Samsung"
      [] key = <<"8", "6">> -> "Huawei"
      [] key = <<"9", "9">> -> "Xiaomi"

\* faulty variant: the Huawei and Xiaomi prefixes exchanged
getIMEIVendor_swapped(imei) ==
    LET tac == substring(imei, 0, 8)
        key == substring(tac, 0, 2)
    IN  CASE key = <<"8", "6">> -> "Xiaomi"
          [] key = <<"9", "9">> -> "Huawei"
          [] key \in vendorKeys -> vendors(key)
          [] OTHER -> "Unknown"

getIMEIVendor(imei) ==
    LET tac == substring(imei, 0, 8)
        key == substring(tac, 0, 2)
    IN  IF key \in vendorKeys THEN vendors(key) ELSE "Unknown"

\* the loop of validateIMEIChecksum, from position i with the sum so far
RECURSIVE imeiLoop(_, _, _)
imeiLoop(imei, i, sum) ==
    IF i < 14
    THEN LET digit   == parseInt(charAt(imei, i))
             doubled == IF digit * 2 > 9 THEN digit * 2 - 9 ELSE digit * 2
             adj     == IF i % 2 = 1 THEN doubled ELSE digit
         IN  imeiLoop(imei, i + 1, sum + adj)
    ELSE sum

\* sum after the loop of validateIMEIChecksum
imeiSum(imei) == imeiLoop(imei, 0, 0)

\* checkDigit of validateIMEIChecksum
imeiCheckDigit(imei) == (10 - (imeiSum(imei) % 10)) % 10

\* faulty variant of the loop: the doubled digit is not reduced by 9
RECURSIVE imeiLoop_no9(_, _, _)
imeiLoop_no9(imei, i, sum) ==
    IF i < 14
    THEN LET digit == parseInt(charAt(imei, i))
             adj   == IF i % 2 = 1 THEN digit * 2 ELSE digit
         IN  imeiLoop_no9(imei, i + 1, sum + adj)
    ELSE sum

\* faulty variant: Luhn without the reduction of a doubled digit above 9
validateIMEIChecksum_no9(imei) ==
    (10 - (imeiLoop_no9(imei, 0, 0) % 10)) % 10 = parseInt(charAt(imei, 14))

\* faulty variant of the loop: the even positions are doubled instead of the odd ones
RECURSIVE imeiLoop_even(_, _, _)
imeiLoop_even(imei, i, sum) ==
    IF i < 14
    THEN LET digit   == parseInt(charAt(imei, i))
             doubled == IF digit * 2 > 9 THEN digit * 2 - 9 ELSE digit * 2
             adj     == IF i % 2 = 0 THEN doubled ELSE digit
         IN  imeiLoop_even(imei, i + 1, sum + adj)
    ELSE sum

\* faulty variant: Luhn doubling the even positions
validateIMEIChecksum_even(imei) ==
    (10 - (imeiLoop_even(imei, 0, 0) % 10)) % 10 = parseInt(charAt(imei, 14))

validateIMEIChecksum(imei) ==
    imeiCheckDigit(imei) = parseInt(charAt(imei, 14))

\* the loop of validateUPCChecksum
RECURSIVE upcLoop(_, _, _)
upcLoop(upc, i, sum) ==
    IF i < 11
    THEN LET digit == parseInt(charAt(upc, i))
         IN  upcLoop(upc, i + 1, sum + (IF i % 2 = 0 THEN digit ELSE digit * 3))
    ELSE sum

\* faulty variant of the loop: weight 3 on the even positions
RECURSIVE upcLoop_swapped(_, _, _)
upcLoop_swapped(upc, i, sum) ==
    IF i < 11
    THEN LET digit == parseInt(charAt(upc, i))
         IN  upcLoop_swapped(upc, i + 1,
                             sum + (IF i % 2 = 0 THEN digit * 3 ELSE digit))
    ELSE sum

\* faulty variant: UPC check with the two weights exchanged
validateUPCChecksum_swapped(upc) ==
    (10 - (upcLoop_swapped(upc, 0, 0) % 10)) % 10 = parseInt(charAt(upc, 11))

validateUPCChecksum(upc) ==
    LET sum        == upcLoop(upc, 0, 0)
        checkDigit == (10 - (sum % 10)) % 10
    IN  checkDigit = parseInt(charAt(upc, 11))

\* the loop of validateEAN13Checksum
RECURSIVE eanLoop(_, _, _)
eanLoop(ean, i, sum) ==
    IF i < 12
    THEN LET digit == parseInt(charAt(ean, i))
         IN  eanLoop(ean, i + 1, sum + (IF i % 2 = 0 THEN digit ELSE digit * 3))
    ELSE sum

validateEAN13Checksum(ean) ==
    LET sum        == eanLoop(ean, 0, 0)
        checkDigit == (10 - (sum % 10)) % 10
    IN  checkDigit = parseInt(charAt(ean, 12))

-----------------------------------------------------------------------------
(* BarcodeClassifier *)

\* the object analyzeBarcodeType returns
Info(t, valid, v, c) == [type |-> t, isValid |-> valid, vendor |-> v, checksum |-> c]

\* faulty variant: validity gated by the checksum
analyzeBarcodeType_gated(text) ==
    LET cleanText == trim(text)
    IN  IF matchIMEI(cleanText)
        THEN Info("IMEI", validateIMEIChecksum(cleanText),
                  getIMEIVendor(cleanText), validateIMEIChecksum(cleanText))
        ELSE IF matchMEID(cleanText)
        THEN Info("MEID", TRUE, "Unknown", TRUE)
        ELSE IF matchUPCA(cleanText)
        THEN Info("UPC-A", validateUPCChecksum(cleanText), "Product",
                  validateUPCChecksum(cleanText))
        ELSE IF matchUPCE(cleanText)
        THEN Info("UPC-E", TRUE, "Product", TRUE)
        ELSE IF matchEAN13(cleanText)
        THEN Info("EAN-13", validateEAN13Checksum(cleanText), "Product",
                  validateEAN13Checksum(cleanText))
        ELSE Info("Unknown", FALSE, "Unknown", FALSE)

analyzeBarcodeType(text) ==
    LET cleanText == trim(text)
    IN  IF matchIMEI(cleanText)
        THEN Info("IMEI", TRUE, getIMEIVendor(cleanText),
                  validateIMEIChecksum(cleanText))
        ELSE IF matchMEID(cleanText)
        THEN Info("MEID", TRUE, "Unknown", TRUE)
        ELSE IF matchUPCA(cleanText)
        THEN Info("UPC-A", TRUE, "Product", validateUPCChecksum(cleanText))
        ELSE IF matchUPCE(cleanText)
        THEN Info("UPC-E", TRUE, "Product", TRUE)
        ELSE IF matchEAN13(cleanText)
        THEN Info("EAN-13", TRUE, "Product", validateEAN13Checksum(cleanText))
        ELSE Info("Unknown", FALSE, "Unknown", FALSE)

-----------------------------------------------------------------------------
(* Texts handed to the engine *)

\* "490154203237518", continued to the longest body
BaseIMEI == <<"4", "9", "0", "1", "5", "4", "2", "0", "3", "2", "3", "7", "5",
              "1", "8", "0", "4", "2">>

\* "4006381333931", continued
BaseEAN == <<"4", "0", "0", "6", "3", "8", "1", "3", "3", "3", "9", "3", "1",
             "7", "0", "9", "1", "5">>

\* "036000291452", continued
BaseUPC == <<"0", "3", "6", "0", "0", "0", "2", "9", "1", "4", "5", "2", "8",
             "8", "1", "0", "6", "3">>

\* "A10000009296F2", continued
BaseMEID == <<"A", "1", "0", "0", "0", "0", "0", "0", "9", "2", "9", "6", "F",
              "2", "c", "3", "b", "7">>

Bases == {BaseIMEI, BaseEAN, BaseUPC, BaseMEID}

IMEIVector == SubSeq(BaseIMEI, 1, 15)
EANVector == SubSeq(BaseEAN, 1, 13)
UPCVector == SubSeq(BaseUPC, 1, 12)
MEIDVector == SubSeq(BaseMEID, 1, 14)
MEIDLower == <<"a", "1", "0", "0", "0", "0", "0", "0", "9", "2", "9", "6", "f", "2">>
Text12345 == <<"1", "2", "3", "4", "5">>

\* every prefix of a base with one position overwritten by any character,
\* every 15-digit text that differs from the IMEI vector in its first two
\* digits, the empty text and "12345"
ClassifyBodies ==
    {[SubSeq(b, 1, k) EXCEPT ![p] = c] :
        <<b, k, p, c>> \in {q \in Bases \X (1..MaxLen) \X (1..MaxLen) \X Chars :
                              q[3] <= q[2]}}
    \cup {[IMEIVector EXCEPT ![1] = d[1], ![2] = d[2]] : d \in Digits \X Digits}
    \cup {<<>>, Text12345, MEIDLower}

PadLeft == <<" ", "\t", " ">>
PadRight == <<"\t", " ", " ">>

\* the decoder may deliver a text with whitespace around it
ClassifyInputs ==
    {SubSeq(PadLeft, 1, l) \o body \o SubSeq(PadRight, 1, r) :
        <<l, r, body>> \in (0..MaxPad) \X (0..MaxPad) \X ClassifyBodies}

\* texts of the detection events of the application runs
AppTexts == {UPCVector, MEIDVector, Text12345}

\* texts of the detection events of the runs under policy block: one text
\* as it is and as a decoder delivers it with a blank in front
BlockTexts == {UPCVector, <<" ">> \o UPCVector}

\* texts of the runs that end in a sync: one of each recognized type, one in
\* lower case, one of no type, each with and without whitespace around it
SyncInputs ==
    {SubSeq(PadLeft, 1, l) \o body \o SubSeq(PadRight, 1, r) :
        <<l, r, body>> \in (0..MaxPad) \X (0..MaxPad) \X
            {IMEIVector, MEIDVector, MEIDLower, UPCVector, SubSeq(BaseUPC, 1, 8),
             EANVector, Text12345}}

\* texts asked about at the duplicate guard: the detected ones, one that
\* differs from a detected one in case only, one with a leading blank
CandidateTexts == AppTexts \cup {MEIDLower, <<" ">> \o UPCVector}

-----------------------------------------------------------------------------
(* Session state, DuplicateGuard and ScanLog *)

\* JavaScript's null
Null == "null"

Users == {"alice"}

\* the options of the duplicateHandling setting
Policies == {"block", "allow"}

\* this.sessionId before getSessionId first sets it
NoSession == <<>>

\* what localStorage.getItem returns for a key never written
NoItem == [kind |-> "null", value |-> <<>>]

\* this.scanInterval when no timer is referenced (null)
NoTimer == 0

\* the scanning state the constructor leaves, the page being visible
ScanIdle ==
    /\ isScanning = FALSE
    /\ scanInterval = NoTimer
    /\ timers = {}
    /\ starting = 0
    /\ restarts = 0
    /\ pending = 0
    /\ hidden = FALSE
    /\ stopped = FALSE
    /\ userPaused = FALSE

\* no call observed yet
NoRet == [op |-> "none"]

\* the observer of successive detections at rest: stage 1 follows a single
\* detection made on an empty log with duplicateCount 0 under block, stage 2
\* a second detection of the same text right after it
MonIdle == [stage |-> 0, text |-> <<>>]

\* faulty variant: the allow policy is not consulted
isDuplicate_ignoresPolicy(text) ==
    \E i \in 1..Len(scanData) : scanData[i].text = text

\* faulty variant: nothing is ever a duplicate
isDuplicate_never(text) == FALSE

isDuplicate(text) ==
    IF settings.duplicateHandling = "allow"
    THEN FALSE
    ELSE \E i \in 1..Len(scanData) : scanData[i].text = text

\* Date.now().toString(36) + Math.random().toString(36).substr(2)
generateId(rand) == <<now, rand>>

\* the value getSessionId returns
getSessionId == IF sessionId = NoSession THEN <<currentUser, now>> ELSE sessionId

\* the object pushed on validBarcodes for one decoded result
ScanRecord(result, rand) ==
    LET barcodeInfo == analyzeBarcodeType(result.text)
    IN  [text      |-> result.text,
         timestamp |-> result.timestamp,
         type      |-> barcodeInfo.type,
         isValid   |-> barcodeInfo.isValid,
         vendor    |-> barcodeInfo.vendor,
         checksum  |-> barcodeInfo.checksum,
         user      |-> currentUser,
         sessionId |-> getSessionId,
         id        |-> generateId(rand)]

\* faulty variant: a duplicate is kept
RECURSIVE validBarcodes_keepsDuplicates(_, _, _)
validBarcodes_keepsDuplicates(results, rands, i) ==
    IF i > Len(results)
    THEN <<>>
    ELSE LET result == results[i]
             rest   == validBarcodes_keepsDuplicates(results, rands, i + 1)
         IN  IF analyzeBarcodeType(result.text).isValid
             THEN <<ScanRecord(result, rands[i])>> \o rest
             ELSE rest

\* faulty variant: a text of no type is kept
RECURSIVE validBarcodes_keepsInvalid(_, _, _)
validBarcodes_keepsInvalid(results, rands, i) ==
    IF i > Len(results)
    THEN <<>>
    ELSE LET result == results[i]
             rest   == validBarcodes_keepsInvalid(results, rands, i + 1)
         IN  IF ~isDuplicate(result.text)
             THEN <<ScanRecord(result, rands[i])>> \o rest
             ELSE rest

\* validBarcodes after the loop of processDetectedBarcodes has handled
\* results[i..]; the log is not written inside the loop
RECURSIVE validBarcodes(_, _, _)
validBarcodes(results, rands, i) ==
    IF i > Len(results)
    THEN <<>>
    ELSE LET result == results[i]
             rest   == validBarcodes(results, rands, i + 1)
         IN  IF analyzeBarcodeType(result.text).isValid /\ ~isDuplicate(result.text)
             THEN <<ScanRecord(result, rands[i])>> \o rest
             ELSE rest

\* how often the loop of processDetectedBarcodes takes its duplicate branch
duplicatesIn(results) ==
    Cardinality({i \in 1..Len(results) :
                    /\ analyzeBarcodeType(results[i].text).isValid
                    /\ isDuplicate(results[i].text)})

\* what scanImageData returns when it is not empty: the one result of the
\* full frame or of the first region that decodes, stamped with Date.now()
DecodedResults == {<<[text |-> t, timestamp |-> now]>> : t \in AppTexts}

\* the lists processDetectedBarcodes accepts: any number of decoded results
ResultLists ==
    UNION {[1..n -> {[text |-> t, timestamp |-> now] : t \in BlockTexts}] :
             n \in 1..MaxResults}

\* the outcomes of Math.random() told apart
Rands == {0, 1}

\* the ids the results list offers a delete button for
ListedIds == {scanData[i].id : i \in 1..Len(scanData)}

-----------------------------------------------------------------------------
(* The handlers of the application *)

\* selectUser(username); the empty string is the "no user" option
selectUser(username) ==
    /\ currentUser' = IF username = "" THEN Null ELSE username
    /\ ret' = NoRet
    /\ mon' = MonIdle
    /\ UNCHANGED <<sessionId, scanData, duplicateCount, errorCount,
                   settings, storage, now, input, scanVars>>

\* saveSettings(): the form's duplicateHandling value replaces the setting
saveSettings(policy) ==
    /\ settings' = [duplicateHandling |-> policy]
    /\ ret' = NoRet
    /\ mon' = MonIdle
    /\ UNCHANGED <<currentUser, sessionId, scanData, duplicateCount, errorCount,
                   storage, now, input, scanVars>>

\* JSON.stringify of a log; the records hold strings, numbers, booleans and
\* null only, which JSON.parse gives back as they were
stringify(log) == [kind |-> "json", value |-> log]

\* saveScanData(): the log as the handler leaves it goes to localStorage
saveScanData == storage' = stringify(scanData')

\* faulty variant: the records are put in front of the log
addScanResults_atFront(barcodes) ==
    /\ scanData' = barcodes \o scanData
    /\ saveScanData

\* addScanResults(barcodes): push each record on the log, then save
addScanResults(barcodes) ==
    /\ scanData' = scanData \o barcodes
    /\ saveScanData

\* the observer's step on a detection event
monAfter(results) ==
    IF /\ Len(results) = 1
       /\ scanData = <<>>
       /\ duplicateCount = 0
       /\ settings.duplicateHandling = "block"
    THEN [stage |-> 1, text |-> results[1].text]
    ELSE IF /\ Len(results) = 1
            /\ mon.stage = 1
            /\ results[1].text = mon.text
            /\ settings.duplicateHandling = "block"
    THEN [stage |-> 2, text |-> results[1].text]
    ELSE MonIdle

\* the body of processDetectedBarcodes(results)
handleResults(results, rands) ==
    LET valid == validBarcodes(results, rands, 1)
        dups  == duplicatesIn(results)
    IN  /\ Len(scanData) + Len(valid) <= MaxLog
        /\ duplicateCount + dups <= MaxDup
        /\ duplicateCount' = duplicateCount + dups
        /\ sessionId' = IF valid # <<>> THEN getSessionId ELSE sessionId
        /\ IF valid # <<>>
           THEN addScanResults(valid)
           ELSE UNCHANGED <<scanData, storage>>
        /\ mon' = monAfter(results)
        /\ ret' = NoRet
        /\ UNCHANGED <<currentUser, errorCount, settings, now, input>>

\* processDetectedBarcodes(results): one detection event, the scanning state
\* left aside
processDetectedBarcodes(results, rands) ==
    handleResults(results, rands) /\ UNCHANGED scanVars

\* this.scanData.filter(item => item.id !== id)
filterOutId(log, id) == SelectSeq(log, LAMBDA item : item.id # id)

\* deleteResult(id), with the answer given to the confirm dialog
deleteResult(id, confirmed) ==
    /\ IF confirmed
       THEN /\ scanData' = filterOutId(scanData, id)
            /\ saveScanData
       ELSE UNCHANGED <<scanData, storage>>
    /\ ret' = NoRet
    /\ mon' = MonIdle
    /\ UNCHANGED <<currentUser, sessionId, duplicateCount, errorCount,
                   settings, now, input, scanVars>>

\* faulty variant: the error counter survives the clear
clearSession_keepsErrors(confirmed) ==
    /\ IF confirmed
       THEN /\ scanData' = <<>>
            /\ duplicateCount' = 0
            /\ saveScanData
            /\ UNCHANGED errorCount
       ELSE UNCHANGED <<scanData, duplicateCount, errorCount, storage>>
    /\ ret' = IF confirmed
              THEN [op |-> "clearSession", records |-> Len(scanData),
                    duplicates |-> duplicateCount, errors |-> errorCount]
              ELSE NoRet
    /\ mon' = MonIdle
    /\ UNCHANGED <<currentUser, sessionId, settings, now, input, scanVars>>

\* clearSession(), with the answer given to the confirm dialog
clearSession(confirmed) ==
    /\ IF confirmed
       THEN /\ scanData' = <<>>
            /\ duplicateCount' = 0
            /\ errorCount' = 0
            /\ saveScanData
       ELSE UNCHANGED <<scanData, duplicateCount, errorCount, storage>>
    /\ ret' = IF confirmed
              THEN [op |-> "clearSession", records |-> Len(scanData),
                    duplicates |-> duplicateCount, errors |-> errorCount]
              ELSE NoRet
    /\ mon' = MonIdle
    /\ UNCHANGED <<currentUser, sessionId, settings, now, input, scanVars>>

\* the characters of a type name
typeChars(type) ==
    CASE type = "IMEI"    -> <<"I", "M", "E", "I">>
      [] type = "MEID"    -> <<"M", "E", "I", "D">>
      [] type = "UPC-A"   -> <<"U", "P", "C", "-", "A">>
      [] type = "UPC-E"   -> <<"U", "P", "C", "-", "E">>
      [] type = "EAN-13"  -> <<"E", "A", "N", "-", "1", "3">>
      [] type = "Unknown" -> <<"U", "n", "k", "n", "o", "w", "n">>

\* String.prototype.startsWith
startsWith(s, prefix) ==
    Len(s) >= Len(prefix) /\ SubSeq(s, 1, Len(prefix)) = prefix

\* faulty variant: EAN codes are not routed to the upc field
payloadItem_upcOnly(item) ==
    [timestamp    |-> item.timestamp,
     imei_meid    |-> IF item.type = "IMEI" \/ item.type = "MEID"
                      THEN item.text ELSE <<>>,
     upc          |-> IF startsWith(typeChars(item.type), <<"U", "P", "C">>)
                      THEN item.text ELSE <<>>,
     vendor       |-> item.vendor,
     user         |-> item.user,
     session_id   |-> item.sessionId,
     barcode_type |-> item.type]

\* the object the sync payload holds for one record; '' is the empty text
payloadItem(item) ==
    [timestamp    |-> item.timestamp,
     imei_meid    |-> IF item.type = "IMEI" \/ item.type = "MEID"
                      THEN item.text ELSE <<>>,
     upc          |-> IF \/ startsWith(typeChars(item.type), <<"U", "P", "C">>)
                         \/ startsWith(typeChars(item.type), <<"E", "A", "N">>)
                      THEN item.text ELSE <<>>,
     vendor       |-> item.vendor,
     user         |-> item.user,
     session_id   |-> item.sessionId,
     barcode_type |-> item.type]

\* syncToGoogleSheets() with a sheet URL configured, up to the payload it
\* hands to fetch; it returns early on an empty log
syncToGoogleSheets ==
    /\ scanData # <<>>
    /\ ret' = [op |-> "syncToGoogleSheets",
               data |-> [i \in 1..Len(scanData) |-> payloadItem(scanData[i])]]
    /\ mon' = MonIdle
    /\ UNCHANGED <<currentUser, sessionId, scanData, duplicateCount, errorCount,
                   settings, storage, now, input, scanVars>>

\* the timer callback of startScanningLoop when performScan rejects
scanError ==
    /\ errorCount < MaxErr
    /\ errorCount' = errorCount + 1
    /\ ret' = NoRet
    /\ mon' = MonIdle
    /\ UNCHANGED <<currentUser, sessionId, scanData, duplicateCount, settings,
                   storage, now, input, scanVars>>

\* the clock advances
Tick ==
    /\ now < MaxNow
    /\ now' = now + 1
    /\ UNCHANGED <<currentUser, sessionId, scanData, duplicateCount, errorCount,
                   settings, storage, input, ret, mon, scanVars>>

\* the constructor's state; loadSettings may find either policy saved
Init ==
    /\ currentUser = Null
    /\ sessionId = NoSession
    /\ scanData = <<>>
    /\ duplicateCount = 0
    /\ errorCount = 0
    /\ settings \in [duplicateHandling : Policies]
    /\ storage = NoItem
    /\ now = 0
    /\ input = <<>>
    /\ ret = NoRet
    /\ mon = MonIdle
    /\ ScanIdle

Next ==
    \/ \E username \in Users \cup {""} : selectUser(username)
    \/ \E policy \in Policies : saveSettings(policy)
    \/ \E results \in DecodedResults :
         \E rands \in [1..Len(results) -> Rands] :
            processDetectedBarcodes(results, rands)
    \/ \E id \in ListedIds : \E confirmed \in BOOLEAN : deleteResult(id, confirmed)
    \/ \E confirmed \in BOOLEAN : clearSession(confirmed)
    \/ Tick

\* the handlers that read or write the log or a counter, and the clock
NextCounters ==
    \/ \E policy \in Policies : saveSettings(policy)
    \/ \E results \in DecodedResults :
         \E rands \in [1..Len(results) -> Rands] :
            processDetectedBarcodes(results, rands)
    \/ scanError
    \/ \E id \in ListedIds : \E confirmed \in BOOLEAN : deleteResult(id, confirmed)
    \/ \E confirmed \in BOOLEAN : clearSession(confirmed)
    \/ Tick

\* the state after init(): loadUserData has selected the saved user, if any
InitCounters ==
    /\ currentUser \in Users \cup {Null}
    /\ sessionId = NoSession
    /\ scanData = <<>>
    /\ duplicateCount = 0
    /\ errorCount = 0
    /\ settings \in [duplicateHandling : Policies]
    /\ storage = NoItem
    /\ now = 0
    /\ input = <<>>
    /\ ret = NoRet
    /\ mon = MonIdle
    /\ ScanIdle

SpecCounters == InitCounters /\ [][NextCounters]_vars

Spec == Init /\ [][Next]_vars

\* the constructor's state with the default policy, which loadSettings
\* yields when nothing is saved
InitBlock == Init /\ settings.duplicateHandling = "block"

\* calls of processDetectedBarcodes alone, so that the policy stays block
NextBlock ==
    \/ \E results \in ResultLists :
         \E rands \in [1..Len(results) -> Rands] :
            processDetectedBarcodes(results, rands)
    \/ Tick

SpecBlock == InitBlock /\ [][NextBlock]_vars

-----------------------------------------------------------------------------
(* Scanning: camera start, interval timers, scans waiting for the decoder *)

\* the part of the state the scanning handlers leave alone
logVars == <<currentUser, sessionId, scanData, duplicateCount, errorCount,
             settings, storage, now, input, ret, mon>>

\* the id setInterval returns: one that no live timer has
freshTimer == CHOOSE id \in (1..MaxTimers) \ timers :
                 \A other \in (1..MaxTimers) \ timers : id <= other

\* startScanningLoop(): this.scanInterval = setInterval(...); a timer that
\* scanInterval referred to before stays live
startScanningLoop ==
    /\ Cardinality(timers) < MaxTimers
    /\ scanInterval' = freshTimer
    /\ timers' = timers \cup {freshTimer}

\* if (this.scanInterval) { clearInterval(this.scanInterval);
\* this.scanInterval = null; }
clearScanInterval ==
    /\ timers' = timers \ {scanInterval}
    /\ scanInterval' = NoTimer

\* startScanning() up to its await: it returns at once without a user
startScanning ==
    /\ currentUser # Null => starting < MaxStarting
    /\ starting' = IF currentUser = Null THEN starting ELSE starting + 1
    /\ stopped' = FALSE
    /\ UNCHANGED <<isScanning, scanInterval, timers, pending, hidden, userPaused>>

\* the start button, or Ctrl+S while isScanning is false; the user acts on a
\* page that is shown
startRequested ==
    /\ ~hidden
    /\ ~isScanning
    /\ startScanning
    /\ UNCHANGED <<restarts, logVars>>

\* the timeout set by updateScanMode fires: () => this.startScanning()
restartFires ==
    /\ restarts > 0
    /\ restarts' = restarts - 1
    /\ startScanning
    /\ UNCHANGED logVars

\* startScanning() after startCameraStream has resolved
cameraStarted ==
    /\ starting > 0
    /\ starting' = starting - 1
    /\ isScanning' = TRUE
    /\ startScanningLoop
    /\ userPaused' = FALSE
    /\ UNCHANGED <<restarts, pending, hidden, stopped, logVars>>

\* startScanning() after startCameraStream has thrown: the catch branch
cameraFailed ==
    /\ starting > 0
    /\ starting' = starting - 1
    /\ UNCHANGED <<isScanning, scanInterval, timers, restarts, pending, hidden,
                   stopped, userPaused, logVars>>

\* the callback of a live timer: it returns unless isScanning, else it calls
\* performScan, which runs up to await this.scanImageData(imageData)
timerFires(id) ==
    /\ id \in timers
    /\ isScanning
    /\ pending < MaxPending
    /\ pending' = pending + 1
    /\ UNCHANGED <<isScanning, scanInterval, timers, starting, restarts, hidden,
                   stopped, userPaused, logVars>>

\* performScan() after scanImageData has resolved with no result
scanFoundNothing ==
    /\ pending > 0
    /\ pending' = pending - 1
    /\ UNCHANGED <<isScanning, scanInterval, timers, starting, restarts, hidden,
                   stopped, userPaused, logVars>>

\* performScan() after scanImageData has resolved with results: it calls
\* processDetectedBarcodes(results), whatever isScanning is by then
scanFound(results, rands) ==
    /\ pending > 0
    /\ pending' = pending - 1
    /\ handleResults(results, rands)
    /\ UNCHANGED <<isScanning, scanInterval, timers, starting, restarts, hidden,
                   stopped, userPaused>>

\* what stopScanning() does to the scanning state
stopScanningBody ==
    /\ isScanning' = FALSE
    /\ clearScanInterval
    /\ stopped' = TRUE
    /\ userPaused' = FALSE

\* stopScanning(): the stop button, or Ctrl+S while isScanning is true
stopScanning ==
    /\ ~hidden
    /\ isScanning
    /\ stopScanningBody
    /\ UNCHANGED <<starting, restarts, pending, hidden, logVars>>

\* updateScanMode(mode) while scanning: stopScanning(), then
\* setTimeout(() => this.startScanning(), 100)
updateScanMode ==
    /\ ~hidden
    /\ isScanning
    /\ restarts < MaxRestarts
    /\ stopScanningBody
    /\ restarts' = restarts + 1
    /\ UNCHANGED <<starting, pending, hidden, logVars>>

\* resumeScanning()
resumeScanning ==
    IF isScanning /\ scanInterval = NoTimer
    THEN startScanningLoop
    ELSE UNCHANGED <<scanInterval, timers>>

\* toggleDetection(): the pause button of the controls shown while scanning
toggleDetection ==
    /\ ~hidden
    /\ isScanning
    /\ IF scanInterval # NoTimer
       THEN clearScanInterval /\ userPaused' = TRUE
       ELSE resumeScanning /\ userPaused' = FALSE
    /\ UNCHANGED <<isScanning, starting, restarts, pending, hidden, stopped,
                   logVars>>

\* the visibilitychange listener: the page is hidden or shown again
visibilityChange ==
    /\ hidden' = ~hidden
    /\ IF ~isScanning
       THEN UNCHANGED <<scanInterval, timers>>
       ELSE IF hidden'
            THEN clearScanInterval
            ELSE resumeScanning
    /\ UNCHANGED <<isScanning, starting, restarts, pending, stopped, userPaused,
                   logVars>>

NextScan ==
    \/ \E username \in Users \cup {""} : ~hidden /\ selectUser(username)
    \/ startRequested
    \/ restartFires
    \/ cameraStarted
    \/ cameraFailed
    \/ \E id \in timers : timerFires(id)
    \/ scanFoundNothing
    \/ \E results \in DecodedResults :
         \E rands \in [1..Len(results) -> Rands] : scanFound(results, rands)
    \/ stopScanning
    \/ updateScanMode
    \/ toggleDetection
    \/ visibilityChange

SpecScan == Init /\ [][NextScan]_vars

-----------------------------------------------------------------------------
(* Two users taking turns *)

TwoUsers == {"alice", "bob"}

\* the state after init() when loadUserData has found a saved user
InitUsers ==
    /\ currentUser \in TwoUsers
    /\ sessionId = NoSession
    /\ scanData = <<>>
    /\ duplicateCount = 0
    /\ errorCount = 0
    /\ settings \in [duplicateHandling : Policies]
    /\ storage = NoItem
    /\ now = 0
    /\ input = <<>>
    /\ ret = NoRet
    /\ mon = MonIdle
    /\ ScanIdle

\* selectUser with a user name, detections and clearSession
NextUsers ==
    \/ \E username \in TwoUsers : selectUser(username)
    \/ \E results \in DecodedResults :
         \E rands \in [1..Len(results) -> Rands] :
            processDetectedBarcodes(results, rands)
    \/ \E confirmed \in BOOLEAN : clearSession(confirmed)
    \/ Tick

SpecUsers == InitUsers /\ [][NextUsers]_vars

-----------------------------------------------------------------------------
(* Start-up with data an earlier run left in localStorage *)

\* a record as an earlier run saved it
SavedRecord ==
    LET barcodeInfo == analyzeBarcodeType(UPCVector)
    IN  [text      |-> UPCVector,
         timestamp |-> 0,
         type      |-> barcodeInfo.type,
         isValid   |-> barcodeInfo.isValid,
         vendor    |-> barcodeInfo.vendor,
         checksum  |-> barcodeInfo.checksum,
         user      |-> "alice",
         sessionId |-> <<"alice", 0>>,
         id        |-> <<0, 0>>]

\* the objects found in the saved array: a whole record, one with a text and
\* nothing else, one without text and type
PersistedRecords ==
    {SavedRecord, [text |-> MEIDVector], [id |-> <<0, 1>>, timestamp |-> 0]}

\* an item that JSON.parse throws on
Corrupt == [kind |-> "garbage", value |-> <<>>]

\* what localStorage may hold when the page starts
PersistedItems ==
    {NoItem, Corrupt}
    \cup {stringify(log) :
            log \in UNION {[1..n -> PersistedRecords] : n \in 0..MaxLog}}

\* loadScanData(): saved ? JSON.parse(saved) : [], and [] when parse throws
loadScanData ==
    /\ scanData' = IF storage.kind = "json" THEN storage.value ELSE <<>>
    /\ ret' = [op |-> "loadScanData"]
    /\ mon' = MonIdle
    /\ UNCHANGED <<currentUser, sessionId, duplicateCount, errorCount, settings,
                   storage, now, input, scanVars>>

InitLoad ==
    /\ currentUser = Null
    /\ sessionId = NoSession
    /\ scanData = <<>>
    /\ duplicateCount = 0
    /\ errorCount = 0
    /\ settings \in [duplicateHandling : Policies]
    /\ storage \in PersistedItems
    /\ now = 0
    /\ input = <<>>
    /\ ret = NoRet
    /\ mon = MonIdle
    /\ ScanIdle

\* the load and the handlers that do not read the records' fields
NextLoad ==
    \/ loadScanData
    \/ \E username \in Users \cup {""} : selectUser(username)
    \/ \E policy \in Policies : saveSettings(policy)
    \/ \E confirmed \in BOOLEAN : clearSession(confirmed)
    \/ Tick

SpecLoad == InitLoad /\ [][NextLoad]_vars

-----------------------------------------------------------------------------
(* Detections of one text, then a sync *)

InitSync ==
    /\ currentUser = Null
    /\ sessionId = NoSession
    /\ scanData = <<>>
    /\ duplicateCount = 0
    /\ errorCount = 0
    /\ settings \in [duplicateHandling : Policies]
    /\ storage = NoItem
    /\ now = 0
    /\ input \in SyncInputs
    /\ ret = NoRet
    /\ mon = MonIdle
    /\ ScanIdle

NextSync ==
    \/ \E username \in Users \cup {""} : selectUser(username)
    \/ \E rand \in Rands :
         processDetectedBarcodes(<<[text |-> input, timestamp |-> now]>>, <<rand>>)
    \/ syncToGoogleSheets
    \/ Tick

SpecSync == InitSync /\ [][NextSync]_vars

-----------------------------------------------------------------------------
(* The classifier as a pure function: any input, one call *)

InitClassify ==
    /\ currentUser = Null
    /\ sessionId = NoSession
    /\ scanData = <<>>
    /\ duplicateCount = 0
    /\ errorCount = 0
    /\ settings = [duplicateHandling |-> "block"]
    /\ storage = NoItem
    /\ now = 0
    /\ input \in ClassifyInputs
    /\ ret = NoRet
    /\ mon = MonIdle
    /\ ScanIdle

\* a call of analyzeBarcodeType(input)
analyzeCall ==
    /\ ret = NoRet
    /\ ret' = [op |-> "analyzeBarcodeType", arg |-> input,
               value |-> analyzeBarcodeType(input)]
    /\ UNCHANGED <<currentUser, sessionId, scanData, duplicateCount, errorCount,
                   settings, storage, now, input, mon, scanVars>>

NextClassify == analyzeCall

SpecClassify == InitClassify /\ [][NextClassify]_vars

-----------------------------------------------------------------------------
(* Vocabulary of the properties, stated apart from the model's operators *)

\* the analyzeBarcodeType call has returned
Classified == ret.op = "analyzeBarcodeType"

NonBlank(s) == {i \in 1..Len(s) : s[i] \notin {" ", "\t"}}

\* s without its leading and trailing whitespace
Stripped(s) ==
    IF NonBlank(s) = {}
    THEN <<>>
    ELSE LET first == CHOOSE i \in NonBlank(s) : \A j \in NonBlank(s) : i <= j
             last  == CHOOSE i \in NonBlank(s) : \A j \in NonBlank(s) : j <= i
         IN  [k \in 1..(last - first + 1) |-> s[first + k - 1]]

DecimalDigits == <<"0", "1", "2", "3", "4", "5", "6", "7", "8", "9">>

IsDecimal(c) == \E i \in 1..10 : DecimalDigits[i] = c

IsHexadecimal(c) ==
    IsDecimal(c) \/ c \in {"A", "B", "C", "D", "E", "F", "a", "b", "c", "d", "e", "f"}

\* the value of a decimal digit
DigitValue(c) == (CHOOSE i \in 1..10 : DecimalDigits[i] = c) - 1

\* exactly n decimal digits
Decimal(s, n) == Len(s) = n /\ \A i \in 1..Len(s) : IsDecimal(s[i])

\* exactly 14 hexadecimal characters
Hex14(s) == Len(s) = 14 /\ \A i \in 1..Len(s) : IsHexadecimal(s[i])

\* one of the five shape rules applies
AnyShape(s) ==
    Decimal(s, 15) \/ Hex14(s) \/ Decimal(s, 12) \/ Decimal(s, 8) \/ Decimal(s, 13)

\* the digit of s at the 0-based position i
DigitAt(s, i) == DigitValue(s[i + 1])

RECURSIVE SumOver(_, _)
\* the sum of f over the finite set S of positions
SumOver(f, S) ==
    IF S = {}
    THEN 0
    ELSE LET x == CHOOSE x \in S : TRUE
         IN  f[x] + SumOver(f, S \ {x})

\* reference Luhn variant over a 15-digit text
RefLuhn(s) ==
    LET adj == [i \in 0..13 |->
                  IF i % 2 = 1
                  THEN IF 2 * DigitAt(s, i) > 9
                       THEN 2 * DigitAt(s, i) - 9
                       ELSE 2 * DigitAt(s, i)
                  ELSE DigitAt(s, i)]
        sum == SumOver(adj, 0..13)
    IN  (10 - (sum % 10)) % 10 = DigitAt(s, 14)

\* reference weighted mod-10 check over a digit text of length n
RefWeighted(s, n) ==
    LET w   == [i \in 0..(n - 2) |->
                  IF i % 2 = 0 THEN DigitAt(s, i) ELSE 3 * DigitAt(s, i)]
        sum == SumOver(w, 0..(n - 2))
    IN  (10 - (sum % 10)) % 10 = DigitAt(s, n - 1)

\* the vendor table as the specification gives it
RefVendor(a, b) ==
    CASE a = "0" /\ b = "1" -> "Apple"
      [] a = "3" /\ b = "5" -> "Samsung"
      [] a = "8" /\ b = "6" -> "Huawei"
      [] a = "9" /\ b = "9" -> "Xiaomi"
      [] OTHER -> "Unknown"

UnknownInfo ==
    [type |-> "Unknown", isValid |-> FALSE, vendor |-> "Unknown", checksum |-> FALSE]

-----------------------------------------------------------------------------
(* Properties of the classifier, checked under SpecClassify *)

\* C1: every text that trims to exactly 15 decimal digits is classified IMEI,
\* and its checksum field is true iff the reference Luhn variant holds
\* (odd positions 0..13 doubled, minus 9 above 9; check digit at position 14).
C1_ImeiChecksumIsLuhn ==
    (Classified /\ Decimal(Stripped(input), 15))
        => /\ ret.value.type = "IMEI"
           /\ ret.value.checksum = RefLuhn(Stripped(input))

\* a padded 15-digit text has been classified, with a passing checksum
C1_Witness ==
    /\ Classified
    /\ Len(input) > 15
    /\ Decimal(Stripped(input), 15)
    /\ ret.value.type = "IMEI"
    /\ ret.value.checksum

\* C2: every text that trims to none of the five shapes gets type Unknown,
\* isValid false, vendor Unknown, checksum false; "12345" is such a text.
C2_NoShapeIsUnknown ==
    /\ (Classified /\ ~AnyShape(Stripped(input))) => ret.value = UnknownInfo
    /\ (Classified /\ input = Text12345) => ret.value = UnknownInfo

\* "12345" has been classified
C2_Witness == Classified /\ input = Text12345 /\ ret.value.type = "Unknown"

\* C3: isValid is true iff the trimmed text matches one of the five shapes,
\* whatever the checksum; type is Unknown exactly when isValid is false.
C3_ValidIffShape ==
    Classified
        => /\ ret.value.isValid = AnyShape(Stripped(input))
           /\ (ret.value.type = "Unknown") = (~ret.value.isValid)

\* a text of a recognized shape with a failing checksum has been classified valid
C3_Witness ==
    /\ Classified
    /\ Decimal(Stripped(input), 13)
    /\ ret.value.isValid
    /\ ~ret.value.checksum

\* C4: analyzeBarcodeType("036000291452") returns UPC-A with checksum true.
C4_UpcVectorChecksumTrue ==
    (Classified /\ input = UPCVector)
        => /\ ret.value.type = "UPC-A"
           /\ ret.value.checksum = TRUE

\* C5 as stated: "490154203237518" is IMEI with checksum false, the sum being
\* 67 and the computed check digit 3.
C5_ImeiVectorChecksumFalse ==
    (Classified /\ input = IMEIVector)
        => /\ ret.value.type = "IMEI"
           /\ ret.value.checksum = FALSE
           /\ imeiSum(input) = 67
           /\ imeiCheckDigit(input) = 3

\* C5 amended: "490154203237518" is IMEI with checksum true: the sum of the
\* 14 leading digits under the doubling rule is 52, the computed check digit
\* is 8, the final digit.
C5_ImeiVectorChecksumTrue ==
    (Classified /\ input = IMEIVector)
        => /\ ret.value.type = "IMEI"
           /\ ret.value.checksum = TRUE
           /\ imeiSum(input) = 52
           /\ imeiCheckDigit(input) = 8

\* "490154203237518" has been classified
C5_Witness == Classified /\ input = IMEIVector /\ ret.value.type = "IMEI"

\* C6: for a digit text of length 12 (UPC-A) or 13 (EAN-13) the checksum is
\* true iff the weighted mod-10 check digit (weight 1 at even, 3 at odd
\* positions 0..L-2) equals the digit at L-1; "4006381333931" passes as EAN-13.
C6_WeightedCheck ==
    /\ \A n \in {12, 13} :
         (Classified /\ Decimal(Stripped(input), n))
            => /\ ret.value.type = (IF n = 12 THEN "UPC-A" ELSE "EAN-13")
               /\ ret.value.checksum = RefWeighted(Stripped(input), n)
    /\ (Classified /\ input = EANVector)
          => (ret.value.type = "EAN-13" /\ ret.value.checksum = TRUE)

\* "4006381333931" has been classified EAN-13 with a passing checksum
C6_Witness ==
    /\ Classified
    /\ input = EANVector
    /\ ret.value.type = "EAN-13"
    /\ ret.value.checksum

\* C7: 14 hexadecimal characters in either case (14 decimal digits too) are
\* MEID with vendor Unknown, 8 decimal digits are UPC-E with vendor Product;
\* both are valid with checksum true whatever the characters.
C7_MeidAndUpce ==
    /\ (Classified /\ Hex14(Stripped(input)))
          => ret.value = [type |-> "MEID", isValid |-> TRUE,
                          vendor |-> "Unknown", checksum |-> TRUE]
    /\ (Classified /\ Decimal(Stripped(input), 8))
          => ret.value = [type |-> "UPC-E", isValid |-> TRUE,
                          vendor |-> "Product", checksum |-> TRUE]

\* 14 purely decimal digits have been classified MEID
C7_Witness ==
    /\ Classified
    /\ Decimal(Stripped(input), 14)
    /\ ret.value.type = "MEID"

\* C8: the vendor of an IMEI is decided by its first two characters (01 Apple,
\* 35 Samsung, 86 Huawei, 99 Xiaomi, anything else Unknown); no other type
\* gets a looked-up vendor.
C8_VendorByPrefix ==
    /\ (Classified /\ Decimal(Stripped(input), 15))
          => ret.value.vendor = RefVendor(Stripped(input)[1], Stripped(input)[2])
    /\ (Classified /\ ret.value.type # "IMEI")
          => ret.value.vendor \in {"Unknown", "Product"}

\* an IMEI with prefix 35 has been classified with vendor Samsung
C8_Witness ==
    /\ Classified
    /\ Decimal(Stripped(input), 15)
    /\ Stripped(input)[1] = "3"
    /\ Stripped(input)[2] = "5"
    /\ ret.value.vendor = "Samsung"

-----------------------------------------------------------------------------
(* Properties of the duplicate guard and the log, checked under Spec *)

\* C9: isDuplicate returns true iff the policy is block and some record of
\* the log has exactly the candidate's text (case-sensitive); under allow it
\* returns false whatever the log holds.
C9_IsDuplicateIffBlockAndPresent ==
    \A text \in CandidateTexts :
        /\ isDuplicate(text)
              = (/\ settings.duplicateHandling = "block"
                 /\ \E i \in 1..Len(scanData) : scanData[i].text = text)
        /\ settings.duplicateHandling = "allow" => ~isDuplicate(text)

\* a detection has just been refused as a duplicate of a logged text, while
\* the same text in the other case is no duplicate
C9_Witness ==
    /\ mon.stage = 2
    /\ mon.text = MEIDVector
    /\ isDuplicate(MEIDVector)
    /\ ~isDuplicate(MEIDLower)

\* C10: from an empty log under policy block, two successive detections of
\* "036000291452": the first appends one record, the second is a duplicate
\* and appends nothing; the log then holds exactly one record with that text
\* and duplicateCount is 1.
C10_SecondDetectionBlocked ==
    mon.text = UPCVector
        => /\ mon.stage = 1
              => /\ Len(scanData) = 1
                 /\ scanData[1].text = UPCVector
                 /\ duplicateCount = 0
           /\ mon.stage = 2
              => /\ Len(scanData) = 1
                 /\ scanData[1].text = UPCVector
                 /\ duplicateCount = 1

\* the second of two successive detections of "036000291452" has happened
C10_Witness == mon.stage = 2 /\ mon.text = UPCVector

-----------------------------------------------------------------------------
(* The scan log: ids, append and delete *)

\* C11: in every reachable state no two records of the log share an id; the
\* append step never adds a record whose id the log already holds.
C11_IdsUnique ==
    \A i, j \in 1..Len(scanData) :
        scanData[i].id = scanData[j].id => i = j

\* the record a detection of one decoded result would append in this state,
\* as a list: empty when the result is turned down
Appended(results, rand) == validBarcodes(results, <<rand>>, 1)

\* C12: appending a record r (addScanResults) and then deleting by r's id
\* (deleteResult, confirmed) leaves the log as it was before the two calls,
\* in content and order; checked for every reachable log and every record a
\* detection can create in it.
C12_AppendThenDeleteRestores ==
    \A results \in DecodedResults : \A rand \in Rands :
        LET valid == Appended(results, rand)
        IN  valid # <<>> =>
                filterOutId(scanData \o valid, valid[1].id) = scanData

-----------------------------------------------------------------------------
(* The text of a record *)

\* C13: every record of the log carries the trimmed decoded value as its
\* text: no leading or trailing whitespace, also when the decoded input had
\* some.
C13_StoredTextTrimmed ==
    \A i \in 1..Len(scanData) : scanData[i].text = Stripped(scanData[i].text)

-----------------------------------------------------------------------------
(* Loading persisted data *)

\* fields every scan record must have
RequiredFields == {"id", "text", "type", "timestamp"}

\* C14: after loadScanData the log holds no record that lacks a required
\* field: such persisted records are skipped, the others are loaded.
C14_LoadedRecordsWellFormed ==
    ret.op = "loadScanData" =>
        \A i \in 1..Len(scanData) : RequiredFields \subseteq DOMAIN scanData[i]

-----------------------------------------------------------------------------
(* Clearing the session *)

\* C15: a confirmed clearSession, from any state, leaves the log empty and
\* the duplicate and error counters at 0; a declined one leaves the log and
\* both counters as they were.
C15_ClearSession ==
    [][\A confirmed \in BOOLEAN :
          clearSession(confirmed) =>
              IF confirmed
              THEN scanData' = <<>> /\ duplicateCount' = 0 /\ errorCount' = 0
              ELSE UNCHANGED <<scanData, duplicateCount, errorCount>>]_vars

\* a confirmed clear of a state with records, duplicates and errors
C15_Witness ==
    /\ ret.op = "clearSession"
    /\ ret.records > 0 /\ ret.duplicates > 0 /\ ret.errors > 0
    /\ scanData = <<>> /\ duplicateCount = 0 /\ errorCount = 0

-----------------------------------------------------------------------------
(* The sync payload *)

\* the sync payload has been built
Synced == ret.op = "syncToGoogleSheets"

\* C16: in the sync payload every record is projected by type: imei_meid is
\* the record's text for IMEI and MEID and empty otherwise, upc is the text
\* for the UPC and EAN types and empty otherwise; so a record of one of the
\* five recognized types has its text in exactly one of the two fields.
C16_PayloadRoutedByType ==
    Synced =>
        /\ Len(ret.data) = Len(scanData)
        /\ \A i \in 1..Len(scanData) :
              LET item == scanData[i]
                  sent == ret.data[i]
              IN  /\ sent.imei_meid =
                        IF item.type \in {"IMEI", "MEID"} THEN item.text ELSE <<>>
                  /\ sent.upc =
                        IF item.type \in {"UPC-A", "UPC-E", "EAN-13"}
                        THEN item.text ELSE <<>>
                  /\ item.type \in {"IMEI", "MEID", "UPC-A", "UPC-E", "EAN-13"} =>
                        /\ item.text # <<>>
                        /\ (sent.imei_meid = item.text) # (sent.upc = item.text)
                        /\ {sent.imei_meid, sent.upc} = {item.text, <<>>}

\* a payload with an EAN-13 record, whose text had whitespace around it
C16_Witness ==
    /\ Synced
    /\ \E i \in 1..Len(scanData) :
          /\ scanData[i].type = "EAN-13"
          /\ scanData[i].text # EANVector
          /\ ret.data[i].upc = scanData[i].text
          /\ ret.data[i].imei_meid = <<>>

-----------------------------------------------------------------------------
(* Detection events and the log *)

\* the detected texts whose trimmed form has none of the five shapes
UnknownTexts == {text \in AppTexts : ~AnyShape(Stripped(text))}

\* the log holds a record with this text while the policy is block
BlockedText(text) ==
    /\ settings.duplicateHandling = "block"
    /\ \E i \in 1..Len(scanData) : scanData[i].text = text

\* the step is a detection event of one decoded result with this text
Detection(text) ==
    \E rand \in Rands :
        processDetectedBarcodes(<<[text |-> text, timestamp |-> now]>>, <<rand>>)

\* log is the beginning of longer
IsPrefix(log, longer) ==
    Len(log) <= Len(longer) /\ SubSeq(longer, 1, Len(log)) = log

\* C17: a detection event whose text is classified Unknown, or is a duplicate
\* under policy block, leaves the log unchanged: same records, same order,
\* no new record.  Stated from the other end: a step that changes the log is
\* not the detection of such a text.
C17_RejectedDetectionKeepsLog ==
    [][\A text \in AppTexts :
          (text \in UnknownTexts \/ BlockedText(text)) /\ scanData' # scanData =>
              ~Detection(text)]_vars

\* a second detection of a logged text under block has left the log alone
C17_Witness ==
    /\ mon.stage = 2 /\ mon.text = MEIDVector
    /\ Len(scanData) = 1 /\ scanData[1].text = MEIDVector
    /\ duplicateCount = 1

\* the step adds one record with this text at the end of the log
AppendsOne(text) ==
    /\ Len(scanData') = Len(scanData) + 1
    /\ IsPrefix(scanData, scanData')
    /\ scanData'[Len(scanData')].text = text

\* C18: under detection the log is append-only: an accepted detection
\* (shape-valid, not a duplicate, whatever its checksum) adds exactly one
\* record at the end and leaves the records before it as they were, in
\* order; records leave the log only by a confirmed deleteResult with their
\* id or a confirmed clearSession.  The first part is stated from the other
\* end: a step that does not add one such record at the end is not the
\* detection of an acceptable text.
C18_AppendOnly ==
    [][/\ \A text \in AppTexts \ UnknownTexts :
             ~BlockedText(text) /\ ~AppendsOne(text) => ~Detection(text)
       /\ \/ IsPrefix(scanData, scanData')
          \/ \E id \in ListedIds :
                /\ deleteResult(id, TRUE)
                /\ \A i \in 1..Len(scanData) :
                      scanData[i].id # id =>
                          \E j \in 1..Len(scanData') : scanData'[j] = scanData[i]
          \/ clearSession(TRUE)]_vars

\* a record with a failed checksum was accepted after another record, which
\* is still in front of it
C18_Witness ==
    /\ Len(scanData) = 2
    /\ scanData[1].text = MEIDVector
    /\ scanData[2].text = UPCVector /\ ~scanData[2].checksum
    /\ scanData[1].timestamp < scanData[2].timestamp
    /\ storage = stringify(scanData)

\* C19: from an empty log, after any detection events, deletes and clears,
\* every record of the log has isValid true and one of the five recognized
\* types, never Unknown.
C19_RecordsValidAndTyped ==
    \A i \in 1..Len(scanData) :
        /\ scanData[i].isValid = TRUE
        /\ scanData[i].type \in {"IMEI", "MEID", "UPC-A", "UPC-E", "EAN-13"}

\* two records of different types, logged although a text of no type and a
\* duplicate were detected as well
C19_Witness ==
    /\ Len(scanData) = 2
    /\ scanData[1].type = "UPC-A" /\ scanData[2].type = "MEID"
    /\ settings.duplicateHandling = "block" /\ duplicateCount > 0

-----------------------------------------------------------------------------
(* Texts of the log under policy block *)

-----------------------------------------------------------------------------
(* Scanning: stop, timers, users, pause *)

\* C21: once stopScanning has run, no record is appended to the log until
\* startScanning is called again, a scan that was waiting for the decoder
\* when stopScanning ran included.
C21_NoAppendWhileStopped ==
    [][stopped /\ stopped' => Len(scanData') <= Len(scanData)]_vars

\* C22: at every moment at most one interval timer is live, and it is the
\* one scanInterval refers to, so that stopScanning stops all periodic
\* scanning.
C22_OneTimerReferenced ==
    /\ Cardinality(timers) <= 1
    /\ timers \subseteq {scanInterval}

\* C23: every record of the log has a user that is not null, whatever the
\* sequence of selectUser, startScanning, detection and stopScanning.
C23_RecordsHaveUser ==
    \A i \in 1..Len(scanData) : scanData[i].user # Null

\* C24: after toggleDetection has paused detection, no scan timer is started
\* until the user toggles detection again or stops and restarts scanning; the
\* page being hidden and shown again in between starts none.
C24_UserPauseHolds ==
    [][userPaused /\ userPaused' => timers' \subseteq timers]_vars

-----------------------------------------------------------------------------
(* Session ids *)

\* C25: the sessionId of every record of the log was derived from the
\* record's own user: it begins with that user's name, whatever the sequence
\* of selectUser, detection and clearSession.
C25_SessionIdOfOwnUser ==
    \A i \in 1..Len(scanData) : scanData[i].sessionId[1] = scanData[i].user

=============================================================================
